---- MODULE Spec2Model ----
(***************************************************************************)
(* FB2 ingestion of the BookReader backend: BookViewSet.upload_fb2 and the *)
(* parser it calls (_parse_fb2_content, _validate_fb2_structure,           *)
(* _extract_fb2_metadata, _extract_fb2_chapters, _process_fb2_section),    *)
(* together with the Book and Chapter tables the upload writes.            *)
(*                                                                         *)
(* Text is a sequence of one-character strings.  The empty sequence is     *)
(* also what an absent text node (Python None) is modelled by: the code    *)
(* only ever tests text for truthiness before using it.  Cyrillic literals *)
(* of the source are transliterated (the module is ASCII).                 *)
(*                                                                         *)
(* A parsed document is a sequence of nodes in document (pre-)order, each  *)
(* carrying its depth; node 1 is the root.  An element's tag is the pair   *)
(* (ns, name): ElementTree's "{ns}name", or the bare "name" when ns = "".  *)
(***************************************************************************)
EXTENDS Integers, Sequences, FiniteSets, TLC

\* ------------------------------------------------------------------ text

\* The characters str.strip() removes that occur in the modelled documents.
Whitespace == {" ", "\n", "\t"}

RECURSIVE lstrip(_)
lstrip(s) ==
    IF s # <<>> /\ Head(s) \in Whitespace THEN lstrip(Tail(s)) ELSE s

RECURSIVE rstrip(_)
rstrip(s) ==
    IF s # <<>> /\ s[Len(s)] \in Whitespace
    THEN rstrip(SubSeq(s, 1, Len(s) - 1))
    ELSE s

\* str.strip()
strip(s) == rstrip(lstrip(s))

\* sep.join(parts)
RECURSIVE join(_, _)
join(sep, parts) ==
    IF parts = <<>> THEN <<>>
    ELSE IF Len(parts) = 1 THEN parts[1]
    ELSE parts[1] \o sep \o join(sep, Tail(parts))

DigitChars == <<"0", "1", "2", "3", "4", "5", "6", "7", "8", "9">>

\* str(n) for n >= 0, as the f-string of a chapter number formats it.
RECURSIVE str(_)
str(n) ==
    IF n < 10 THEN <<DigitChars[n + 1]>>
    ELSE str(n \div 10) \o <<DigitChars[(n % 10) + 1]>>

\* ------------------------------------------------------------------ tree

\* Indices of the descendants of node i, and of its children.
Descendants(t, i) ==
    {j \in (i + 1)..Len(t) : \A k \in (i + 1)..j : t[k].d > t[i].d}

Children(t, i) == {j \in Descendants(t, i) : t[j].d = t[i].d + 1}

\* A set of indices as the sequence in document order.
RECURSIVE InOrder(_)
InOrder(S) ==
    IF S = {} THEN <<>>
    ELSE LET m == CHOOSE x \in S : \A y \in S : x <= y
         IN  <<m>> \o InOrder(S \ {m})

\* Element.itertext(): the element's text, then for each child its own
\* itertext() followed by the child's tail.
RECURSIVE itertext(_, _)
RECURSIVE itertextKids(_, _)
itertext(t, i) == t[i].text \o itertextKids(t, InOrder(Children(t, i)))
itertextKids(t, kids) ==
    IF kids = <<>> THEN <<>>
    ELSE itertext(t, kids[1]) \o t[kids[1]].tail \o itertextKids(t, Tail(kids))

\* What "fb:name" resolves to under namespaces = {"fb": uri}, and what the
\* bare path "name" matches: the full tag string of the element looked for.
QualifiedTag(name, namespace) ==
    IF namespace # <<>> THEN <<"{">> \o namespace \o <<"}", name>> ELSE <<name>>

\* Element.findall(path, namespaces) for the two path shapes the code uses:
\* axis "./" (children) and ".//" (descendants, the element itself
\* excluded).  Every call site writes the path as "fb:name" when the
\* namespace dict is non-empty and as the bare "name" otherwise.
findall(t, i, axis, name, namespace) ==
    LET scope == IF axis = "./" THEN Children(t, i) ELSE Descendants(t, i)
    IN  InOrder({j \in scope : t[j].tag = QualifiedTag(name, namespace)})

\* Element.find: the first match in document order, or none (<<>>).
find(t, i, axis, name, namespace) ==
    LET all == findall(t, i, axis, name, namespace)
    IN  IF all = <<>> THEN <<>> ELSE <<all[1]>>

\* The last character of an element name (names are single tokens).
LastChar(name) ==
    CASE name \in {"p", "sup"} -> "p"
      [] name \in {"section", "annotation", "description"} -> "n"
      [] name \in {"title", "book-title", "empty-line", "genre",
                   "first-name", "middle-name", "last-name", "cite"} -> "e"
      [] name \in {"body"} -> "y"
      [] name \in {"title-info"} -> "o"
      [] name \in {"author"} -> "r"
      [] name \in {"emphasis"} -> "s"
      [] name \in {"lang"} -> "g"
      [] name \in {"FictionBook"} -> "k"
      [] OTHER -> "?"

\* tag.endswith("p"): the tag string ends with its element name.
endswith_p(tag) == LastChar(tag[Len(tag)]) = "p"

\* ---------------------------------------------------------------- parser

\* _parse_fb2_content, lines 239-248: the namespace dict {"fb": uri} is
\* modelled by <<uri>> and the empty dict {} by <<>>.  root.tag[1:k] with
\* k = root.tag.find("}") is the slice between the braces.
IndexOf(s, c) == CHOOSE k \in 1..Len(s) : s[k] = c /\ \A m \in 1..(k - 1) : s[m] # c

resolve_namespace(root_tag) ==
    IF root_tag[1] = "{"
    THEN SubSeq(root_tag, 2, IndexOf(root_tag, "}") - 1)
    ELSE <<>>

required_elements == <<"title-info", "body">>

\* The validation searching "./name" (the root's children) instead.
validate_direct_children(root, namespace) ==
    LET missing == SelectSeq(required_elements,
                     LAMBDA e : find(root, 1, "./", e, namespace) = <<>>)
    IN  IF missing = <<>> THEN <<>> ELSE <<missing[1]>>

\* _validate_fb2_structure: <<>> when both required elements are found,
\* else <<element_name>> of the first one the loop finds missing (the name
\* the raised ValueError carries).
validate_fb2_structure(root, namespace) ==
    LET missing == SelectSeq(required_elements,
                     LAMBDA e : find(root, 1, ".//", e, namespace) = <<>>)
    IN  IF missing = <<>> THEN <<>> ELSE <<missing[1]>>

\* [p.text.strip() for p in ps if p.text]
stripped_texts(t, ps) ==
    LET with_text == SelectSeq(ps, LAMBDA e : t[e].text # <<>>)
    IN  [k \in 1..Len(with_text) |-> strip(t[with_text[k]].text)]

\* find_text of _extract_fb2_metadata; only slash-free paths are passed, so
\* the rewritten path is "fb:" + path, a search among the direct children.
find_text(t, i, path, default, namespace) ==
    LET found == find(t, i, "./", path, namespace)
    IN  IF found # <<>> /\ t[found[1]].text # <<>>
        THEN strip(t[found[1]].text)
        ELSE default

\* find_all_text of _extract_fb2_metadata.
find_all_text(t, i, path, namespace) ==
    join(<<" ">>, stripped_texts(t, findall(t, i, "./", path, namespace)))

\* "Bez nazvanija", the default title; "ru", the default language.
DefaultTitle == <<"B", "e", "z", " ", "n", "a", "z", "v", "a", "n", "i", "j", "a">>
DefaultLanguage == <<"r", "u">>

\* The lookup searching "./title-info" (the root's children) instead.
metadata_title_info_direct(root, namespace) ==
    find(root, 1, "./", "title-info", namespace)

\* The title-info element _extract_fb2_metadata works on.
metadata_title_info(root, namespace) ==
    find(root, 1, ".//", "title-info", namespace)

\* The join that keeps the empty parts.
author_name_unfiltered(t, author, namespace) ==
    LET first_name == find_text(t, author, "first-name", <<>>, namespace)
        last_name == find_text(t, author, "last-name", <<>>, namespace)
        middle_name == find_text(t, author, "middle-name", <<>>, namespace)
    IN  join(<<" ">>, <<first_name, middle_name, last_name>>)

\* One author's name, lines 323-327.
author_name(t, author, namespace) ==
    LET first_name == find_text(t, author, "first-name", <<>>, namespace)
        last_name == find_text(t, author, "last-name", <<>>, namespace)
        middle_name == find_text(t, author, "middle-name", <<>>, namespace)
    IN  join(<<" ">>, SelectSeq(<<first_name, middle_name, last_name>>,
                                LAMBDA x : x # <<>>))

\* The annotation text taken from the annotation's child paragraphs only.
description_of_child_paragraphs(t, title_info, namespace) ==
    LET annotation_elem == find(t, title_info, ".//", "annotation", namespace)
    IN  IF annotation_elem = <<>> THEN <<>>
        ELSE LET paragraphs ==
                     findall(t, annotation_elem[1], "./", "p", namespace)
             IN  IF paragraphs # <<>>
                 THEN join(<<"\n">>, stripped_texts(t, paragraphs))
                 ELSE strip(itertext(t, annotation_elem[1]))

\* The annotation text, lines 331-345.
description_of(t, title_info, namespace) ==
    LET annotation_elem == find(t, title_info, ".//", "annotation", namespace)
    IN  IF annotation_elem = <<>> THEN <<>>
        ELSE LET paragraphs ==
                     findall(t, annotation_elem[1], ".//", "p", namespace)
             IN  IF paragraphs # <<>>
                 THEN join(<<"\n">>, stripped_texts(t, paragraphs))
                 ELSE strip(itertext(t, annotation_elem[1]))

\* _extract_fb2_metadata: <<book_data>>, or <<>> when it raises ValueError
\* because no title-info is found.
extract_fb2_metadata(root, namespace) ==
    LET title_info == metadata_title_info(root, namespace)
    IN  IF title_info = <<>> THEN <<>>
        ELSE LET ti == title_info[1]
                 author_elements == findall(root, ti, ".//", "author", namespace)
                 names == [k \in 1..Len(author_elements) |->
                             author_name(root, author_elements[k], namespace)]
                 authors == SelectSeq(names, LAMBDA x : x # <<>>)
             IN  <<[title |-> find_text(root, ti, "book-title", DefaultTitle, namespace),
                    description |-> description_of(root, ti, namespace),
                    additional_fields |->
                      [authors |-> IF authors # <<>>
                                   THEN join(<<",", " ">>, authors) ELSE <<>>,
                       genres |-> find_all_text(root, ti, "genre", namespace),
                       language |-> find_text(root, ti, "lang", DefaultLanguage,
                                              namespace)]]>>

\* "Glava ", the prefix of a generated chapter title.
Glava == <<"G", "l", "a", "v", "a", " ">>

\* The title of a section, lines 394-411.
chapter_title_of(t, section, namespace, order) ==
    LET title_elem == find(t, section, "./", "title", namespace)
        derived ==
            IF title_elem = <<>> THEN <<>>
            ELSE LET title_paragraphs ==
                         findall(t, title_elem[1], ".//", "p", namespace)
                 IN  IF title_paragraphs # <<>>
                     THEN join(<<" ">>, stripped_texts(t, title_paragraphs))
                     ELSE strip(itertext(t, title_elem[1]))
    IN  IF derived = <<>> THEN Glava \o str(order) ELSE derived

\* The test comparing with the bare tag only.
is_content_paragraph_bare(tag, namespace) == tag = <<"p">>

\* The test that makes a child of a section a content paragraph, 416-418.
is_content_paragraph(tag, namespace) ==
    \/ endswith_p(tag)
    \/ namespace # <<>> /\ tag = <<"{">> \o namespace \o <<"}", "p">>

\* The content collected from the paragraphs at any depth of the section.
chapter_content_of_descendants(t, section, namespace) ==
    LET content_paragraphs ==
            SelectSeq(InOrder(Descendants(t, section)),
                      LAMBDA c : is_content_paragraph(t[c].tag, namespace))
        texts == [k \in 1..Len(content_paragraphs) |->
                    strip(itertext(t, content_paragraphs[k]))]
    IN  join(<<"\n", "\n">>, SelectSeq(texts, LAMBDA x : x # <<>>))

\* The joined content of a section, lines 413-427.
chapter_content_of(t, section, namespace) ==
    LET content_paragraphs ==
            SelectSeq(InOrder(Children(t, section)),
                      LAMBDA c : is_content_paragraph(t[c].tag, namespace))
        texts == [k \in 1..Len(content_paragraphs) |->
                    strip(itertext(t, content_paragraphs[k]))]
    IN  join(<<"\n", "\n">>, SelectSeq(texts, LAMBDA x : x # <<>>))

\* The chapter dict without the emptiness test.
chapter_always(chapter_title, chapter_content, order) ==
    <<[title |-> chapter_title, content |-> chapter_content, order |-> order]>>

\* Lines 429-431: the chapter dict, or None (<<>>) for empty content.
chapter_or_none(chapter_title, chapter_content, order) ==
    IF strip(chapter_content) # <<>>
    THEN <<[title |-> chapter_title, content |-> chapter_content, order |-> order]>>
    ELSE <<>>

\* _process_fb2_section
process_fb2_section(t, section, namespace, order) ==
    chapter_or_none(chapter_title_of(t, section, namespace, order),
                    chapter_content_of(t, section, namespace),
                    order)

\* The search that always takes the sections at any depth.
candidate_sections_descendants(root, namespace) ==
    LET body == find(root, 1, ".//", "body", namespace)
    IN  IF body = <<>> THEN <<>>
        ELSE findall(root, body[1], ".//", "section", namespace)

\* The search that turns to the sections of the whole document when the
\* first body has none.
candidate_sections_any_body(root, namespace) ==
    LET body == find(root, 1, ".//", "body", namespace)
    IN  IF body = <<>> THEN <<>>
        ELSE LET sections == findall(root, body[1], "./", "section", namespace)
                 deeper == findall(root, body[1], ".//", "section", namespace)
             IN  IF sections # <<>> THEN sections
                 ELSE IF deeper # <<>> THEN deeper
                 ELSE findall(root, 1, ".//", "section", namespace)

\* The candidate sections, lines 369-381: <<>> when there is no body.
candidate_sections(root, namespace) ==
    LET body == find(root, 1, ".//", "body", namespace)
    IN  IF body = <<>> THEN <<>>
        ELSE LET sections == findall(root, body[1], "./", "section", namespace)
             IN  IF sections = <<>>
                 THEN findall(root, body[1], ".//", "section", namespace)
                 ELSE sections

\* A numbering that does not advance with the sections.
enumerate_idx_stuck(k) == 1

\* enumerate(sections, 1): the index paired with the k-th section.
enumerate_idx(k) == k

\* The loop of lines 383-386 from the k-th candidate section on.
RECURSIVE chapters_from(_, _, _, _)
chapters_from(root, sections, namespace, k) ==
    IF k > Len(sections) THEN <<>>
    ELSE process_fb2_section(root, sections[k], namespace, enumerate_idx(k))
         \o chapters_from(root, sections, namespace, k + 1)

\* _extract_fb2_chapters
extract_fb2_chapters(root, namespace) ==
    chapters_from(root, candidate_sections(root, namespace), namespace, 1)

\* The exceptions raised inside _parse_fb2_content's try block.
ParseError == [type |-> "ParseError", msg |-> <<"syntax error">>]

StructureMissing(element_name) ==
    [type |-> "ValueError",
     msg |-> <<"FB2 fajl povrezhden: otsutstvuet element ", element_name>>]

NoTitleInfo ==
    [type |-> "ValueError", msg |-> <<"Ne najdena sekcija title-info v FB2 fajle">>]

\* ------------------------------------------------------------ documents

\* The FictionBook namespace URI, and some other URI.
FB == "http://www.gribuser.ru/xml/fictionbook/2.0"
OtherNS == "urn:other"

\* The tag string ElementTree gives an element of namespace ns ("" for no
\* namespace).
TagOf(ns, name) == IF ns = "" THEN <<name>> ELSE <<"{", ns, "}", name>>

Shift(tr) == [k \in 1..Len(tr) |-> [tr[k] EXCEPT !.d = @ + 1]]

RECURSIVE Flatten(_)
Flatten(trees) ==
    IF trees = <<>> THEN <<>> ELSE Shift(trees[1]) \o Flatten(Tail(trees))

\* An element with its text, its tail and its child trees.
ElemTail(ns, name, text, tail, kids) ==
    <<[d |-> 0, tag |-> TagOf(ns, name), text |-> text, tail |-> tail]>>
    \o Flatten(kids)

Elem(ns, name, text, kids) == ElemTail(ns, name, text, <<>>, kids)

P(ns, text) == Elem(ns, "p", text, <<>>)

\* The sections the documents are built from: with and without a title,
\* with empty, blank, inline-formatted and nested content.
SectionShapes(ns) ==
    { Elem(ns, "section", <<>>, <<>>),
      Elem(ns, "section", <<>>, <<P(ns, <<"a">>)>>),
      Elem(ns, "section", <<>>, <<P(ns, <<" ">>)>>),
      Elem(ns, "section", <<"\n">>,
           <<Elem(ns, "title", <<>>, <<P(ns, <<"T">>)>>), P(ns, <<" ", "b">>)>>),
      Elem(ns, "section", <<>>,
           <<Elem(ns, "title", <<>>, <<P(ns, <<" ">>), P(ns, <<" ">>)>>),
             P(ns, <<"a">>)>>),
      Elem(ns, "section", <<>>, <<Elem(ns, "title", <<>>, <<P(ns, <<"T">>)>>)>>),
      Elem(ns, "section", <<>>,
           <<Elem(ns, "title", <<" ", "R">>, <<>>),
             Elem(ns, "p", <<>>,
                  <<ElemTail(ns, "emphasis", <<"b">>, <<"c", " ">>, <<>>)>>),
             P(ns, <<"d">>)>>),
      Elem(ns, "section", <<>>,
           <<Elem(ns, "section", <<>>, <<P(ns, <<"n">>)>>)>>),
      Elem(ns, "section", <<>>,
           <<Elem(ns, "cite", <<>>, <<P(ns, <<"q">>)>>),
             Elem(ns, "sup", <<"x">>, <<>>),
             Elem(ns, "empty-line", <<>>, <<>>)>>) }

\* The most sections a generated body holds.
MaxSections == 2

SectionLists(ns) ==
    UNION {[1..n -> SectionShapes(ns)] : n \in 0..MaxSections}

\* A title-info block with a book title, as the chapter documents carry it.
PlainTitleInfo(ns) ==
    Elem(ns, "title-info", <<>>, <<Elem(ns, "book-title", <<"B">>, <<>>)>>)

FictionBook(ns, title_info, body) ==
    Elem(ns, "FictionBook", <<>>,
         <<Elem(ns, "description", <<>>, <<title_info>>), body>>)

\* Documents varying the body: the sections directly under body, or all
\* under one epigraph-like wrapper so that body has no direct section.
ChapterDocs ==
    UNION {
      { FictionBook(ns, PlainTitleInfo(ns), Elem(ns, "body", <<>>, secs)) :
          secs \in SectionLists(ns) }
      \cup
      { FictionBook(ns, PlainTitleInfo(ns),
             Elem(ns, "body", <<>>, <<Elem(ns, "cite", <<>>, secs)>>)) :
          secs \in SectionLists(ns) }
      : ns \in {"", FB} }

\* The children a title-info is varied over.
BookTitles(ns) ==
    { <<>>,
      <<Elem(ns, "book-title", <<"B">>, <<>>)>>,
      <<Elem(ns, "book-title", <<" ", "B", "\n">>, <<>>)>>,
      <<Elem(ns, "book-title", <<" ">>, <<>>)>>,
      <<Elem(ns, "book-title", <<>>, <<>>)>> }

Langs(ns) ==
    { <<>>,
      <<Elem(ns, "lang", <<"e", "n">>, <<>>)>>,
      <<Elem(ns, "lang", <<" ">>, <<>>)>> }

AuthorShapes(ns) ==
    { Elem(ns, "author", <<>>,
           <<Elem(ns, "first-name", <<"F">>, <<>>),
             Elem(ns, "last-name", <<"L">>, <<>>)>>),
      Elem(ns, "author", <<>>, <<Elem(ns, "middle-name", <<" ", "M", " ">>, <<>>)>>),
      Elem(ns, "author", <<>>, <<>>),
      Elem(ns, "author", <<>>,
           <<Elem(ns, "first-name", <<" ">>, <<>>),
             Elem(ns, "last-name", <<"L">>, <<>>)>>),
      Elem(ns, "author", <<>>, <<Elem(ns, "first-name", <<>>, <<>>)>>),
      Elem(ns, "author", <<>>,
           <<Elem(ns, "first-name", <<"A", " ", " ", "B">>, <<>>)>>) }

\* The most author elements a generated title-info holds.
MaxAuthors == 2

AuthorLists(ns) == UNION {[1..n -> AuthorShapes(ns)] : n \in 0..MaxAuthors}

Annotations(ns) ==
    { <<>>,
      <<Elem(ns, "annotation", <<>>,
             <<P(ns, <<"A">>), P(ns, <<" ">>), P(ns, <<"C", " ">>)>>)>>,
      <<Elem(ns, "annotation", <<" ", "S", " ">>, <<>>)>>,
      <<Elem(ns, "annotation", <<>>,
             <<Elem(ns, "p", <<>>, <<Elem(ns, "emphasis", <<"e">>, <<>>)>>)>>)>>,
      <<Elem(ns, "annotation", <<" ", "S">>,
             <<Elem(ns, "cite", <<>>, <<P(ns, <<"N", " ">>)>>),
               Elem(ns, "p", <<>>, <<Elem(ns, "emphasis", <<"e">>, <<>>)>>),
               P(ns, <<"C">>)>>)>> }

Genres(ns) ==
    { <<>>,
      <<Elem(ns, "genre", <<"g">>, <<>>), Elem(ns, "genre", <<"g">>, <<>>)>>,
      <<Elem(ns, "genre", <<" ", "h">>, <<>>),
        Elem(ns, "cite", <<>>, <<Elem(ns, "genre", <<"k">>, <<>>)>>)>> }

PlainBody(ns) ==
    Elem(ns, "body", <<>>, <<Elem(ns, "section", <<>>, <<P(ns, <<"a">>)>>)>>)

TitleInfos(ns) ==
    { Elem(ns, "title-info", <<>>, bt \o lg) :
        bt \in BookTitles(ns), lg \in Langs(ns) }
    \cup
    { Elem(ns, "title-info", <<>>, au) : au \in AuthorLists(ns) }
    \cup
    { Elem(ns, "title-info", <<>>, g) : g \in Genres(ns) }
    \cup
    { Elem(ns, "title-info", <<>>, an \o bt) :
        an \in Annotations(ns), bt \in BookTitles(ns) }

\* Documents varying the metadata.
MetaDocs ==
    UNION { { FictionBook(ns, ti, PlainBody(ns)) : ti \in TitleInfos(ns) } :
            ns \in {"", FB} }

\* Documents varying where (and whether, and in which namespace) the two
\* required elements occur, and what the root element is.
Placements == {"absent", "child", "nested", "other-namespace"}

Placed(ns, where, el) ==
    CASE where = "absent" -> <<>>
      [] where = "child" -> <<el>>
      [] where = "nested" -> <<Elem(ns, "description", <<>>, <<el>>)>>
      [] where = "other-namespace" -> <<>>

StructDocs ==
    { Elem(ns, rootname, <<>>,
           Placed(ns, ti, Elem(ns, "title-info", <<>>, <<>>))
           \o (IF ti = "other-namespace"
               THEN <<Elem(OtherNS, "title-info", <<>>, <<>>)>> ELSE <<>>)
           \o Placed(ns, bd, PlainBody(ns))
           \o (IF bd = "other-namespace"
               THEN <<PlainBody(OtherNS)>> ELSE <<>>)) :
        ns \in {"", FB}, rootname \in {"FictionBook", "body", "title-info"},
        ti \in Placements, bd \in Placements }

\* Documents with a child of a section that is a p of another namespace
\* (or, under a namespaced root, of no namespace).
ForeignDocs ==
    { FictionBook("", PlainTitleInfo(""),
        Elem("", "body", <<>>, <<Elem("", "section", <<>>, <<P(OtherNS, <<"o">>)>>)>>)),
      FictionBook(FB, PlainTitleInfo(FB),
        Elem(FB, "body", <<>>,
             <<Elem(FB, "section", <<>>, <<P(FB, <<"a">>), P(OtherNS, <<"o">>)>>)>>)),
      FictionBook(FB, PlainTitleInfo(FB),
        Elem(FB, "body", <<>>, <<Elem(FB, "section", <<>>, <<P("", <<"o">>)>>)>>)) }

\* Documents with a section inside a paragraph of a section, directly
\* under body and under a wrapper.
SectionInParagraphDocs ==
    UNION {
      LET inner == Elem(ns, "section", <<>>, <<P(ns, <<"z">>)>>)
          outer == Elem(ns, "section", <<>>, <<Elem(ns, "p", <<>>, <<inner>>)>>)
      IN  { FictionBook(ns, PlainTitleInfo(ns), Elem(ns, "body", <<>>, <<outer>>)),
            FictionBook(ns, PlainTitleInfo(ns),
                Elem(ns, "body", <<>>, <<Elem(ns, "cite", <<>>, <<outer>>)>>)) }
      : ns \in {"", FB} }

\* Documents with two body elements: the first empty, with a section
\* without text, or with a section with text.
TwoBodyDocs ==
    UNION {
      { Elem(ns, "FictionBook", <<>>,
             <<Elem(ns, "description", <<>>, <<PlainTitleInfo(ns)>>),
               Elem(ns, "body", <<>>, first),
               PlainBody(ns)>>) :
          first \in { <<>>,
                      <<Elem(ns, "section", <<>>, <<>>)>>,
                      <<Elem(ns, "section", <<>>, <<P(ns, <<"f">>)>>)>> } }
      : ns \in {"", FB} }

Docs ==
    ChapterDocs \cup MetaDocs \cup StructDocs \cup ForeignDocs
    \cup SectionInParagraphDocs \cup TwoBodyDocs

\* What ET.fromstring makes of the uploaded bytes: a tree, or (for bytes
\* that are not well-formed XML) a ParseError.
Contents ==
    { [well_formed |-> TRUE, tree |-> t] : t \in Docs }
    \cup { [well_formed |-> FALSE, tree |-> <<>>] }

\* The size ceiling BookUploadSerializer.validate_file applies, in bytes.
MaxUploadSize == 50 * 1024 * 1024

\* The requests: no "file" part, a file whose name does not end in .fb2,
\* an .fb2 file with some content, and an .fb2 file larger than the
\* serializer's ceiling.  `size` is the uploaded file's size in bytes.
Requests ==
    { [has_file |-> FALSE, fb2_name |-> FALSE, size |-> 0,
       content |-> [well_formed |-> FALSE, tree |-> <<>>]],
      [has_file |-> TRUE, fb2_name |-> FALSE, size |-> 1024,
       content |-> [well_formed |-> TRUE, tree |-> FictionBook("", PlainTitleInfo(""), PlainBody(""))]],
      [has_file |-> TRUE, fb2_name |-> TRUE, size |-> MaxUploadSize + 1,
       content |-> [well_formed |-> TRUE, tree |-> FictionBook("", PlainTitleInfo(""), PlainBody(""))]] }
    \cup { [has_file |-> TRUE, fb2_name |-> TRUE, size |-> 1024, content |-> c] :
             c \in Contents }

\* ------------------------------------------------------------- the state

VARIABLES
    request,         \* the upload: has_file, fb2_name, size, content
    pc,              \* the statement upload_fb2 (or the parser) is at
    trace,           \* the parser steps run so far, in the order run
    root,            \* _parse_fb2_content's root (<<>> before fromstring)
    namespace,       \* its namespace dict: <<uri>>, or <<>> for {}
    book_data,       \* its book_data: <<>> until metadata is extracted
    returned,        \* what _parse_fb2_content returned: <<>> or <<dict>>
    error,           \* the exception upload_fb2's handlers catch: <<>> or <<exc>>
    book,            \* the Book instance upload_fb2 created: <<>> or <<row>>
    i,               \* _parse_fb2_chapters' position in chapters_data
    db,              \* the Book and Chapter rows the connection sees
    needs_rollback,  \* connection.needs_rollback of the atomic block
    response,        \* the Response returned: <<>> or <<response>>
    chapter_response,\* what chapter_content returned: <<>> or <<response>>
    calls,           \* the frames of the parser calls running side by side
    card,            \* the FlashCard row under review
    reviews,         \* how many times update_review_data ran on it
    answer_response, \* the status submit_answer last returned (0: none yet)
    last_quality,    \* the quality update_review_data was last called with
    answered_low,    \* whether some review so far had quality below 3
    cards,           \* the FlashCard rows of the user asking for a session
    session,         \* what get_cards_for_review returned: <<>> or <<list>>
    tcalls,          \* the frames of the translate calls in flight
    cache,           \* django.core.cache: the entries set, by key
    translations     \* the Translation rows

upload_vars == <<request, pc, trace, root, namespace, book_data, returned, error,
                 book, i, db, needs_rollback, response, chapter_response>>

flashcard_vars == <<card, reviews, answer_response, last_quality, answered_low>>

session_vars == <<cards, session>>

translate_vars == <<tcalls, cache, translations>>

vars == <<upload_vars, calls, flashcard_vars, session_vars, translate_vars>>

\* What each action of one view leaves alone: the state of the others.
beside_upload == <<chapter_response, calls, flashcard_vars, session_vars,
                   translate_vars>>

beside_parser == <<upload_vars, flashcard_vars, session_vars, translate_vars>>

beside_flashcard == <<upload_vars, calls, session_vars, translate_vars>>

beside_session == <<upload_vars, calls, flashcard_vars, translate_vars>>

beside_translate == <<upload_vars, calls, flashcard_vars, session_vars>>

\* No parser call, no card, no session, no translation: the state of a view
\* nobody has called.
ParserIdle == calls = <<>>

FlashCardIdle ==
    /\ card = <<>>
    /\ reviews = 0
    /\ answer_response = 0
    /\ last_quality = 0
    /\ answered_low = FALSE

SessionIdle == cards = <<>> /\ session = <<>>

TranslateIdle == tcalls = <<>> /\ cache = {} /\ translations = {}

\* The parser's steps in the order _parse_fb2_content writes them.
StepOrder == <<"fromstring", "namespace", "validate", "metadata", "chapters">>

\* The tables as the request finds them: the snapshot a rollback restores.
EmptyDb == [books |-> {}, chapters |-> {}]

Init ==
    /\ request \in Requests
    /\ pc = "check_file"
    /\ trace = <<>>
    /\ root = <<>>
    /\ namespace = <<>>
    /\ book_data = <<>>
    /\ returned = <<>>
    /\ error = <<>>
    /\ book = <<>>
    /\ i = 1
    /\ db = EmptyDb
    /\ needs_rollback = FALSE
    /\ response = <<>>
    /\ chapter_response = <<>>
    /\ ParserIdle
    /\ FlashCardIdle
    /\ SessionIdle
    /\ TranslateIdle

\* The handlers with the broad one written first.
reraise_broad_first(exc) ==
    [type |-> "ValueError", msg |-> <<"Oshibka pri parsinge FB2: ">> \o exc.msg]

\* The two handlers of _parse_fb2_content, lines 261-264: what an exception
\* raised inside its try block leaves the function as.
reraise(exc) ==
    IF exc.type = "ParseError"
    THEN [type |-> "ValueError",
          msg |-> <<"Nekorrektnyj XML format: ">> \o exc.msg]
    ELSE [type |-> "ValueError",
          msg |-> <<"Oshibka pri parsinge FB2: ">> \o exc.msg]

\* The two handlers of upload_fb2, lines 193-206.
handle(exc) ==
    IF exc.type = "ValueError"
    THEN [status |-> 400, error |-> <<"Oshibka formata fajla: ">> \o exc.msg]
    ELSE [status |-> 500, error |-> <<"Oshibka pri obrabotke fajla: ">> \o exc.msg]

\* A validation whose failure is not raised.
after_validate_continue(missing) == "metadata"

\* Where _parse_fb2_content goes after _validate_fb2_structure returned
\* (missing = <<>>) or raised (missing = <<element_name>>).
after_validate(missing) == IF missing = <<>> THEN "metadata" ELSE "except"

\* _parse_fb2_content as a function of the file content: the dict it
\* returns (data) or the ValueError it raises (error).
parse_fb2_content(file_content) ==
    IF ~file_content.well_formed
    THEN [data |-> <<>>, error |-> <<reraise(ParseError)>>]
    ELSE LET t == file_content.tree
             ns == resolve_namespace(t[1].tag)
             missing == validate_fb2_structure(t, ns)
             md == extract_fb2_metadata(t, ns)
         IN  IF after_validate(missing) = "except"
             THEN [data |-> <<>>, error |-> <<reraise(StructureMissing(missing[1]))>>]
             ELSE IF md = <<>>
             THEN [data |-> <<>>, error |-> <<reraise(NoTitleInfo)>>]
             ELSE [data |-> <<[title |-> md[1].title,
                               description |-> md[1].description,
                               additional_fields |-> md[1].additional_fields,
                               chapters |-> extract_fb2_chapters(t, ns)]>>,
                   error |-> <<>>]

\* Lines 147-150.
CheckFile ==
    /\ pc = "check_file"
    /\ UNCHANGED beside_upload
    /\ IF ~request.has_file
       THEN /\ response' = <<[status |-> 400, error |-> <<"Fajl ne najden">>]>>
            /\ pc' = "exit_atomic"
       ELSE /\ response' = response
            /\ pc' = "check_extension"
    /\ UNCHANGED <<request, trace, root, namespace, book_data, returned, error,
                   book, i, db, needs_rollback>>

\* Lines 152-159.
CheckExtension ==
    /\ pc = "check_extension"
    /\ UNCHANGED beside_upload
    /\ IF ~request.fb2_name
       THEN /\ response' =
                <<[status |-> 400, error |-> <<"Podderzhivaetsja tol'ko format FB2">>]>>
            /\ pc' = "exit_atomic"
       ELSE /\ response' = response
            /\ pc' = "fromstring"
    /\ UNCHANGED <<request, trace, root, namespace, book_data, returned, error,
                   book, i, db, needs_rollback>>

\* Lines 162-165 and 237: read the file and parse the bytes.
FromString ==
    /\ pc = "fromstring"
    /\ UNCHANGED beside_upload
    /\ trace' = Append(trace, "fromstring")
    /\ IF request.content.well_formed
       THEN /\ root' = request.content.tree
            /\ error' = error
            /\ pc' = "namespace"
       ELSE /\ root' = root
            /\ error' = <<reraise(ParseError)>>
            /\ pc' = "except"
    /\ UNCHANGED <<request, namespace, book_data, returned, book, i, db,
                   needs_rollback, response>>

\* Lines 239-248.
ResolveNamespace ==
    /\ pc = "namespace"
    /\ UNCHANGED beside_upload
    /\ trace' = Append(trace, "namespace")
    /\ namespace' = resolve_namespace(root[1].tag)
    /\ pc' = "validate"
    /\ UNCHANGED <<request, root, book_data, returned, error, book, i, db,
                   needs_rollback, response>>

\* Line 251.
Validate ==
    /\ pc = "validate"
    /\ UNCHANGED beside_upload
    /\ trace' = Append(trace, "validate")
    /\ LET missing == validate_fb2_structure(root, namespace)
       IN  /\ pc' = after_validate(missing)
           /\ error' =
                IF missing = <<>> THEN error
                ELSE <<reraise(StructureMissing(missing[1]))>>
    /\ UNCHANGED <<request, root, namespace, book_data, returned, book, i, db,
                   needs_rollback, response>>

\* Line 254.
ExtractMetadata ==
    /\ pc = "metadata"
    /\ UNCHANGED beside_upload
    /\ trace' = Append(trace, "metadata")
    /\ LET md == extract_fb2_metadata(root, namespace)
       IN  IF md # <<>>
           THEN /\ book_data' = md
                /\ error' = error
                /\ pc' = "chapters"
           ELSE /\ book_data' = book_data
                /\ error' = <<reraise(NoTitleInfo)>>
                /\ pc' = "except"
    /\ UNCHANGED <<request, root, namespace, returned, book, i, db,
                   needs_rollback, response>>

\* Lines 257-259: the chapters are put into book_data, which is returned.
ExtractChapters ==
    /\ pc = "chapters"
    /\ UNCHANGED beside_upload
    /\ trace' = Append(trace, "chapters")
    /\ returned' =
         <<[title |-> book_data[1].title,
            description |-> book_data[1].description,
            additional_fields |-> book_data[1].additional_fields,
            chapters |-> extract_fb2_chapters(root, namespace)]>>
    /\ pc' = "create_book"
    /\ UNCHANGED <<request, root, namespace, book_data, error, book, i, db,
                   needs_rollback, response>>

\* The row created without the parsed language, so that the model field's
\* default applies.
new_book_model_default(data) ==
    [id |-> 1,
     title |-> data.title,
     description |-> data.description,
     book_format |-> "FB2",
     authors |-> data.additional_fields.authors,
     genres |-> data.additional_fields.genres,
     language |-> <<"e", "n">>,
     file |-> FALSE]

\* Lines 168-177, Book.objects.create.  The INSERT may fail in the database;
\* Model.save_base then marks the enclosing atomic block for rollback
\* before the exception reaches upload_fb2's handlers.
new_book(data) ==
    [id |-> 1,
     title |-> data.title,
     description |-> data.description,
     book_format |-> "FB2",
     authors |-> data.additional_fields.authors,
     genres |-> data.additional_fields.genres,
     language |-> data.additional_fields.language,
     file |-> FALSE]

CreateBook ==
    /\ pc = "create_book"
    /\ UNCHANGED beside_upload
    /\ \E ok \in BOOLEAN :
         IF ok
         THEN /\ book' = <<new_book(returned[1])>>
              /\ db' = [db EXCEPT !.books = @ \cup {new_book(returned[1])}]
              /\ pc' = "save_file"
              /\ UNCHANGED <<error, needs_rollback>>
         ELSE /\ error' = <<[type |-> "DatabaseError", msg |-> <<"insert failed">>]>>
              /\ needs_rollback' = TRUE
              /\ pc' = "except"
              /\ UNCHANGED <<book, db>>
    /\ UNCHANGED <<request, trace, root, namespace, book_data, returned, i, response>>

\* Line 180, book.file.save(..., save=False): the storage writes the file
\* and the instance gets its name; no query is issued.  The write may fail.
SaveFile ==
    /\ pc = "save_file"
    /\ UNCHANGED beside_upload
    /\ \E ok \in BOOLEAN :
         IF ok
         THEN /\ book' = <<[book[1] EXCEPT !.file = TRUE]>>
              /\ pc' = "save_book"
              /\ error' = error
         ELSE /\ error' = <<[type |-> "OSError", msg |-> <<"write failed">>]>>
              /\ pc' = "except"
              /\ book' = book
    /\ UNCHANGED <<request, trace, root, namespace, book_data, returned, i, db,
                   needs_rollback, response>>

\* Line 182, book.save(): the UPDATE of the row, which may fail as the
\* INSERT may.
SaveBook ==
    /\ pc = "save_book"
    /\ UNCHANGED beside_upload
    /\ \E ok \in BOOLEAN :
         IF ok
         THEN /\ db' = [db EXCEPT !.books =
                          {b \in @ : b.id # book[1].id} \cup {book[1]}]
              /\ pc' = "create_chapters"
              /\ UNCHANGED <<error, needs_rollback>>
         ELSE /\ error' = <<[type |-> "DatabaseError", msg |-> <<"update failed">>]>>
              /\ needs_rollback' = TRUE
              /\ pc' = "except"
              /\ db' = db
    /\ UNCHANGED <<request, trace, root, namespace, book_data, returned, book, i,
                   response>>

\* The row Chapter.objects.create inserts, lines 440-445.
chapter_row(b, chapter_data) ==
    [book |-> b.id,
     title |-> chapter_data.title,
     content |-> chapter_data.content,
     order |-> chapter_data.order]

\* unique_together = ['book', 'order'] of Chapter.Meta.
violates_unique(rows, row) ==
    \E r \in rows : r.book = row.book /\ r.order = row.order

\* One turn of the loop of _parse_fb2_chapters.
CreateChapter ==
    /\ pc = "create_chapters"
    /\ UNCHANGED beside_upload
    /\ i <= Len(returned[1].chapters)
    /\ LET row == chapter_row(book[1], returned[1].chapters[i])
       IN  IF violates_unique(db.chapters, row)
           THEN /\ error' = <<[type |-> "IntegrityError",
                               msg |-> <<"UNIQUE constraint failed">>]>>
                /\ needs_rollback' = TRUE
                /\ pc' = "except"
                /\ UNCHANGED <<db, i>>
           ELSE \E ok \in BOOLEAN :
                  IF ok
                  THEN /\ db' = [db EXCEPT !.chapters = @ \cup {row}]
                       /\ i' = i + 1
                       /\ UNCHANGED <<error, needs_rollback, pc>>
                  ELSE /\ error' = <<[type |-> "DatabaseError",
                                      msg |-> <<"insert failed">>]>>
                       /\ needs_rollback' = TRUE
                       /\ pc' = "except"
                       /\ UNCHANGED <<db, i>>
    /\ UNCHANGED <<request, trace, root, namespace, book_data, returned, book,
                   response>>

\* Lines 187-191, once the loop is over.
RespondCreated ==
    /\ pc = "create_chapters"
    /\ UNCHANGED beside_upload
    /\ i > Len(returned[1].chapters)
    /\ response' = <<[status |-> 201, error |-> <<>>]>>
    /\ pc' = "exit_atomic"
    /\ UNCHANGED <<request, trace, root, namespace, book_data, returned, error,
                   book, i, db, needs_rollback>>

\* Lines 193-206: either handler logs and returns an error response.
HandleException ==
    /\ pc = "except"
    /\ UNCHANGED beside_upload
    /\ response' = <<handle(error[1])>>
    /\ pc' = "exit_atomic"
    /\ UNCHANGED <<request, trace, root, namespace, book_data, returned, error,
                   book, i, db, needs_rollback>>

\* What leaving the atomic block does to the tables when the function
\* returned a response (no exception left upload_fb2).
exit_atomic(tables, rollback) == IF rollback THEN EmptyDb ELSE tables

\* Line 140, @transaction.atomic: upload_fb2 always returns normally, so
\* Atomic.__exit__ sees no exception and commits unless the connection was
\* marked needs_rollback.
ExitAtomic ==
    /\ pc = "exit_atomic"
    /\ UNCHANGED beside_upload
    /\ db' = exit_atomic(db, needs_rollback)
    /\ pc' = "done"
    /\ UNCHANGED <<request, trace, root, namespace, book_data, returned, error,
                   book, i, needs_rollback, response>>

\* ------------------------------------------------------- chapter_content

\* int() of a decimal string, the conversion IntegerField.get_prep_value
\* applies to the `chapter` query parameter in the lookup order=...
RECURSIVE to_int(_)
to_int(s) ==
    IF s = <<>> THEN 0
    ELSE 10 * to_int(SubSeq(s, 1, Len(s) - 1))
         + (CHOOSE n \in 0..9 : DigitChars[n + 1] = s[Len(s)])

\* book.chapters: the Chapter rows of a book.
book_chapters(tables, b) == {r \in tables.chapters : r.book = b.id}

\* Lines 219-229: the response for the query parameters `params`, which hold
\* the string of `chapter` or nothing.
chapter_content(tables, b, params) ==
    LET chapter_order == IF params = <<>> THEN 1 ELSE to_int(params[1])
        found == {r \in book_chapters(tables, b) : r.order = chapter_order}
    IN  IF found # {}
        THEN [status |-> 200,
              chapter |-> <<CHOOSE r \in found : TRUE>>,
              total_chapters |-> Cardinality(book_chapters(tables, b)),
              asked |-> params]
        ELSE [status |-> 404,
              chapter |-> <<>>,
              total_chapters |-> Cardinality(book_chapters(tables, b)),
              asked |-> params]

\* The `chapter` parameters a reader of a book with T chapters sends: none,
\* or a chapter number from 1 to T.
ChapterParams(tables, b) ==
    {<<>>} \cup {<<str(k)>> : k \in 1..Cardinality(book_chapters(tables, b))}

\* A chapter_content request for the book a finished upload stored.
ChapterContent ==
    /\ pc = "done"
    /\ response[1].status = 201
    /\ book # <<>>
    /\ book[1] \in db.books
    /\ \E params \in ChapterParams(db, book[1]) :
         chapter_response' = <<chapter_content(db, book[1], params)>>
    /\ pc' = "chapter_served"
    /\ UNCHANGED <<request, trace, root, namespace, book_data, returned, error,
                   book, i, db, needs_rollback, response>>
    /\ UNCHANGED <<calls, flashcard_vars, session_vars, translate_vars>>

Next ==
    \/ CheckFile
    \/ CheckExtension
    \/ FromString
    \/ ResolveNamespace
    \/ Validate
    \/ ExtractMetadata
    \/ ExtractChapters
    \/ CreateBook
    \/ SaveFile
    \/ SaveBook
    \/ CreateChapter
    \/ RespondCreated
    \/ HandleException
    \/ ExitAtomic
    \/ ChapterContent

Spec == Init /\ [][Next]_vars

\* ------------------------------------------- parser calls side by side

\* The most parser calls in flight at once (one per request a worker is
\* serving).
MaxCalls == 2

CallIds == 1..MaxCalls

\* The documents the side-by-side calls are given: complete and without
\* chapters in both namespaces, title-info outside description, and no
\* title-info at all.
ParallelDocs ==
    UNION { { FictionBook(ns, PlainTitleInfo(ns), PlainBody(ns)),
              FictionBook(ns, PlainTitleInfo(ns), Elem(ns, "body", <<>>, <<>>)) } :
            ns \in {"", FB} }
    \cup { Elem("", "FictionBook", <<>>, <<PlainTitleInfo(""), PlainBody("")>>),
           Elem("", "FictionBook", <<>>, <<PlainBody("")>>) }

ParallelContents ==
    { [well_formed |-> TRUE, tree |-> t] : t \in ParallelDocs }
    \cup { [well_formed |-> FALSE, tree |-> <<>>] }

\* The frame of a call of _parse_fb2_content that has not run a statement
\* yet: its argument, its position, its locals and what it has left with.
new_frame(file_content) ==
    [file_content |-> file_content,
     pc |-> "fromstring",
     root |-> <<>>,
     namespace |-> <<>>,
     book_data |-> <<>>,
     result |-> [data |-> <<>>, error |-> <<>>]]

\* An assignment that binds an attribute of the view shared by the calls.
assign_shared(frames, c, name, value) ==
    [k \in DOMAIN frames |-> [frames[k] EXCEPT ![name] = value]]

\* An assignment to a local name of _parse_fb2_content (root, namespace,
\* book_data): it binds the name in the frame of the call that runs it.
assign(frames, c, name, value) ==
    [frames EXCEPT ![c] = [@ EXCEPT ![name] = value]]

\* The call moves on to statement `to`.
goto(frames, c, to) == [frames EXCEPT ![c].pc = to]

\* The call leaves by raising exc (through the handlers of lines 261-264).
raise(frames, c, exc) ==
    [frames EXCEPT ![c].pc = "raised",
                   ![c].result = [data |-> <<>>, error |-> <<reraise(exc)>>]]

InitParallel ==
    /\ request = [has_file |-> FALSE, fb2_name |-> FALSE, size |-> 0,
                  content |-> [well_formed |-> FALSE, tree |-> <<>>]]
    /\ pc = "done"
    /\ trace = <<>>
    /\ root = <<>>
    /\ namespace = <<>>
    /\ book_data = <<>>
    /\ returned = <<>>
    /\ error = <<>>
    /\ book = <<>>
    /\ i = 1
    /\ db = EmptyDb
    /\ needs_rollback = FALSE
    /\ response = <<>>
    /\ chapter_response = <<>>
    /\ calls \in [CallIds -> {new_frame(c) : c \in ParallelContents}]
    /\ FlashCardIdle
    /\ SessionIdle
    /\ TranslateIdle

\* Line 237.
CallFromString(c) ==
    /\ calls[c].pc = "fromstring"
    /\ calls' =
         IF calls[c].file_content.well_formed
         THEN goto(assign(calls, c, "root", calls[c].file_content.tree),
                   c, "namespace")
         ELSE raise(calls, c, ParseError)
    /\ UNCHANGED beside_parser

\* Lines 239-248.
CallResolveNamespace(c) ==
    /\ calls[c].pc = "namespace"
    /\ calls' = goto(assign(calls, c, "namespace",
                            resolve_namespace(calls[c].root[1].tag)),
                     c, "validate")
    /\ UNCHANGED beside_parser

\* Line 251.
CallValidate(c) ==
    /\ calls[c].pc = "validate"
    /\ LET missing == validate_fb2_structure(calls[c].root, calls[c].namespace)
       IN  calls' =
             IF after_validate(missing) = "except"
             THEN raise(calls, c, StructureMissing(missing[1]))
             ELSE goto(calls, c, "metadata")
    /\ UNCHANGED beside_parser

\* Line 254.
CallExtractMetadata(c) ==
    /\ calls[c].pc = "metadata"
    /\ LET md == extract_fb2_metadata(calls[c].root, calls[c].namespace)
       IN  calls' =
             IF md # <<>>
             THEN goto(assign(calls, c, "book_data", md), c, "chapters")
             ELSE raise(calls, c, NoTitleInfo)
    /\ UNCHANGED beside_parser

\* Lines 257-259.
CallExtractChapters(c) ==
    /\ calls[c].pc = "chapters"
    /\ calls' =
         [calls EXCEPT
            ![c].pc = "returned",
            ![c].result =
               [data |-> <<[title |-> calls[c].book_data[1].title,
                            description |-> calls[c].book_data[1].description,
                            additional_fields |->
                                calls[c].book_data[1].additional_fields,
                            chapters |-> extract_fb2_chapters(
                                calls[c].root, calls[c].namespace)]>>,
                error |-> <<>>]]
    /\ UNCHANGED beside_parser

NextParallel ==
    \/ \E c \in CallIds : CallFromString(c)
    \/ \E c \in CallIds : CallResolveNamespace(c)
    \/ \E c \in CallIds : CallValidate(c)
    \/ \E c \in CallIds : CallExtractMetadata(c)
    \/ \E c \in CallIds : CallExtractChapters(c)

SpecParallel == InitParallel /\ [][NextParallel]_vars

\* ------------------------------------------------------------ properties

\* The element name and the namespace URI ("" for none) of a tag string.
ElementName(tag) == tag[Len(tag)]
ElementNs(tag) == IF Len(tag) > 1 THEN tag[2] ELSE ""

\* Node j of tree t is a `name` element of the root element's namespace.
IsElement(t, j, name) ==
    ElementName(t[j].tag) = name /\ ElementNs(t[j].tag) = ElementNs(t[1].tag)

\* _parse_fb2_content raised: an exception is pending and the parser did
\* not run all its steps.
ParseFailed == error # <<>> /\ Len(trace) < Len(StepOrder)

\* _parse_fb2_content was called and has returned or raised.
ParserLeft ==
    /\ trace # <<>>
    /\ pc \notin {"fromstring", "namespace", "validate", "metadata", "chapters"}

ValidationFailed == error # <<>> /\ trace = SubSeq(StepOrder, 1, 3)

\* The chapters of a successful parse.
Chapters == returned[1].chapters

\* The candidate sections of the parsed document, and the positions (among
\* all candidates) of those whose joined paragraph text is not empty.
Candidates == candidate_sections(root, namespace)

NonEmptyPositions ==
    SelectSeq([k \in 1..Len(Candidates) |-> k],
              LAMBDA k : strip(chapter_content_of(root, Candidates[k], namespace)) # <<>>)

\* C1: the order values of the emitted chapters of a successful parse,
\* taken in document order, are exactly 1, 2, ..., N.
C1_OrderIsOneToN ==
    returned # <<>> => \A k \in 1..Len(Chapters) : Chapters[k].order = k

\* C2: the order values of the emitted chapters are pairwise distinct
\* positive integers, and storing the chapters of a book never fails on the
\* (book, order) uniqueness constraint.
C2_OrdersDistinct ==
    /\ returned # <<>> =>
         \A a, b \in 1..Len(Chapters) :
           /\ Chapters[a].order >= 1
           /\ a # b => Chapters[a].order # Chapters[b].order
    /\ error # <<>> => error[1].type # "IntegrityError"

C2_Witness ==
    /\ pc = "done"
    /\ response[1].status = 201
    /\ Cardinality(db.chapters) >= 2

\* C3: every emitted chapter has content that is non-empty after trimming,
\* and the emitted chapters are exactly the candidate sections whose joined
\* paragraph text is non-empty after trimming: the others produce nothing.
C3_NoEmptyContent ==
    returned # <<>> =>
      /\ \A k \in 1..Len(Chapters) : strip(Chapters[k].content) # <<>>
      /\ Len(Chapters) = Len(NonEmptyPositions)

C3_Witness ==
    /\ returned # <<>>
    /\ Len(Chapters) >= 1
    /\ Len(Chapters) < Len(Candidates)

\* The title text of section s as the title derivation defines it: the
\* single-space join of the text of its title's paragraphs (the title's
\* full text when it has none), trimmed; empty when there is no title.
TrimmedTitleText(t, s, ns) ==
    LET title_elem == find(t, s, "./", "title", ns)
    IN  IF title_elem = <<>> THEN <<>>
        ELSE LET ps == findall(t, title_elem[1], ".//", "p", ns)
             IN  IF ps # <<>>
                 THEN strip(join(<<" ">>, [k \in 1..Len(ps) |-> t[ps[k]].text]))
                 ELSE strip(itertext(t, title_elem[1]))

\* C4: a candidate section with no title child, or whose title yields no
\* text, gets the generated title "Glava K", K being its 1-based rank among
\* all candidate sections, dropped ones included.
C4_GeneratedTitle ==
    returned # <<>> /\ Len(Chapters) = Len(NonEmptyPositions) =>
      \A j \in 1..Len(Chapters) :
        LET K == NonEmptyPositions[j]
        IN  TrimmedTitleText(root, Candidates[K], namespace) = <<>>
              => Chapters[j].title = Glava \o str(K)

\* A required element is somewhere in the tree (the root included), or
\* somewhere below the root.
InTree(name) == \E j \in 1..Len(root) : IsElement(root, j, name)
BelowRoot(name) == \E j \in 2..Len(root) : IsElement(root, j, name)

\* The element name the failure message ends with.
NamedElement == error[1].msg[Len(error[1].msg)]

\* C5 as stated: validation fails exactly when the tree holds no title-info
\* or no body element at any depth, and the message names "title-info"
\* when that is missing and "body" when only body is.
C5_FailsIffMissingInTree ==
    Len(trace) >= 3 =>
      /\ ValidationFailed <=> (~InTree("title-info") \/ ~InTree("body"))
      /\ ValidationFailed =>
           NamedElement = IF ~InTree("title-info") THEN "title-info" ELSE "body"

\* C5 as amended: validation fails exactly when no title-info or no body
\* element of the root's namespace lies below the root element, at any
\* depth; the root element itself is not looked at.
C5_FailsIffMissingBelowRoot ==
    Len(trace) >= 3 =>
      /\ ValidationFailed <=> (~BelowRoot("title-info") \/ ~BelowRoot("body"))
      /\ ValidationFailed =>
           NamedElement = IF ~BelowRoot("title-info") THEN "title-info" ELSE "body"

C5_Witness ==
    /\ ValidationFailed
    /\ NamedElement = "body"
    /\ \E j \in 3..Len(root) : IsElement(root, j, "title-info") /\ root[j].d = 2

\* C6: the parser runs fromstring, namespace, validate, metadata, chapters
\* in that order; once a step has failed no later step runs; and a call
\* that did not run every step returns no record.
C6_StepsInOrder ==
    /\ [](/\ trace = SubSeq(StepOrder, 1, Len(trace))
          /\ returned # <<>> => trace = StepOrder
          /\ ParseFailed => returned = <<>> /\ book_data = <<>> /\ book = <<>>)
    /\ [][error # <<>> => trace' = trace /\ returned' = returned]_vars

C6_Witness ==
    /\ pc = "done"
    /\ trace = <<"fromstring", "namespace", "validate">>
    /\ error # <<>>
    /\ returned = <<>>

\* C7 as stated: malformed markup and a missing required element fail with
\* two distinct error kinds.
C7_DistinctErrorKinds ==
    ParseFailed /\ ~request.content.well_formed =>
      error[1].type # reraise(StructureMissing("body")).type

\* C7 as amended: both failures leave the parser as the same error kind,
\* ValueError, and get the same 400 response; only the message tells them
\* apart: it starts with "Nekorrektnyj XML format" exactly when the markup
\* is malformed, and otherwise with "Oshibka pri parsinge FB2" followed by
\* the name of the missing element.
C7_SameKindDistinctMessage ==
    ParseFailed =>
      /\ error[1].type = "ValueError"
      /\ response # <<>> => response[1].status = 400
      /\ error[1].msg[1] = "Nekorrektnyj XML format: " <=> ~request.content.well_formed
      /\ request.content.well_formed =>
           /\ error[1].msg[1] = "Oshibka pri parsinge FB2: "
           /\ NamedElement \in {"title-info", "body"}

C7_Witness ==
    /\ pc = "done"
    /\ ValidationFailed
    /\ response[1].status = 400

\* C8: when upload_fb2 ends with a 400 or 500 response, no Book row and no
\* Chapter row of the request remains in the tables.
C8_ErrorLeavesNoRows ==
    pc = "done" /\ response[1].status \in {400, 500} => db = EmptyDb

\* C9 as stated: a well-formed document holding a title-info element and a
\* body element somewhere parses successfully.
C9_RequiredInTreeSucceeds ==
    ParseFailed /\ request.content.well_formed =>
      ~(InTree("title-info") /\ InTree("body"))

\* C9 as amended: a well-formed document holding, below its root element,
\* a title-info element and a body element of the root's namespace parses
\* successfully, whatever optional element is missing or has no text.
C9_RequiredBelowRootSucceeds ==
    LET t == request.content.tree
    IN  /\ request.content.well_formed
        /\ \E j \in 2..Len(t) : IsElement(t, j, "title-info")
        /\ \E j \in 2..Len(t) : IsElement(t, j, "body")
        => /\ ~ParseFailed
           /\ ParserLeft => returned # <<>>

C9_Witness ==
    /\ returned # <<>>
    /\ \A j \in 1..Len(root) :
         ElementName(root[j].tag) \notin
           {"book-title", "author", "annotation", "genre", "lang", "title"}
    /\ returned[1].title = DefaultTitle
    /\ returned[1].additional_fields.language = DefaultLanguage

\* Every element of the tree is in the root element's namespace.
Uniform(t) == \A j \in 1..Len(t) : ElementNs(t[j].tag) = ElementNs(t[1].tag)

\* The structurally identical tree with no namespace.
WithoutNamespace(t) ==
    [j \in 1..Len(t) |-> [t[j] EXCEPT !.tag = <<ElementName(@)>>]]

NamespaceTokens == {"{", "}", "fb", "fb:", FB, OtherNS}

OutputTexts(data) ==
    {data.title, data.description, data.additional_fields.authors,
     data.additional_fields.genres, data.additional_fields.language}
    \cup {data.chapters[k].title : k \in 1..Len(data.chapters)}
    \cup {data.chapters[k].content : k \in 1..Len(data.chapters)}

\* C10: a document whose elements are all in the root's namespace gives
\* the outcome (the same failure, or the same title, description, authors,
\* genres, language and chapters) that the structurally identical document
\* without namespace gives, and no output text holds a namespace URI or
\* prefix.
C10_NamespaceTransparent ==
    LET t == request.content.tree
    IN  /\ request.content.well_formed
        /\ ElementNs(t[1].tag) # ""
        /\ Uniform(t)
        /\ pc = "create_book" \/ (pc = "except" /\ ParseFailed)
        => LET bare == parse_fb2_content([well_formed |-> TRUE,
                                          tree |-> WithoutNamespace(t)])
           IN  /\ returned = bare.data
               /\ error = bare.error
               /\ returned # <<>> =>
                    \A txt \in OutputTexts(returned[1]) :
                      \A k \in 1..Len(txt) : txt[k] \notin NamespaceTokens

C10_Witness ==
    /\ pc = "create_book"
    /\ namespace = <<FB>>
    /\ Uniform(root)
    /\ Len(Chapters) >= 2
    /\ Chapters[1].title # Glava \o str(Chapters[1].order)

\* ------------------------------------------------------------ flashcards

STATUS_TO_LEARN == "TL"

STATUS_KNOWN == "KN"

STATUS_LEARNED == "LD"

\* The reviews one card is followed through.
MaxReviews == 10

\* The FlashCard row as its field defaults make it, models.py lines 137-146.
\* ease_factor is held in hundredths (250 is 2.5); next_review is the
\* number of days after `since`, the card's creation or its last review.
new_card ==
    [status |-> STATUS_TO_LEARN,
     ease_factor |-> 250,
     interval |-> 1,
     repetitions |-> 0,
     next_review |-> [since |-> "created_at", days |-> 0],
     last_reviewed |-> <<>>]

\* 0.1 - (5 - quality) * (0.08 + (5 - quality) * 0.02), in hundredths.
ease_delta(quality) == 10 - (5 - quality) * (8 + (5 - quality) * 2)

\* The new ease factor without the floor of 1.3.
new_ease_unclamped(ease_factor, quality) == ease_factor + ease_delta(quality)

\* max(1.3, self.ease_factor + ...), line 177.
new_ease(ease_factor, quality) ==
    IF ease_factor + ease_delta(quality) < 130
    THEN 130
    ELSE ease_factor + ease_delta(quality)

\* int(self.interval * self.ease_factor), line 174.  ease_factor is a double:
\* of the values it takes only 2.5 is exact, the others lie next to the
\* hundredth they print as, so a product that is a whole number in decimal
\* arithmetic comes out of the float multiplication either whole or just
\* below, and int() gives either the whole number or the one before it.
\* Both outcomes are kept.
new_intervals(interval, ease_factor) ==
    LET exact == interval * ease_factor
    IN  IF exact % 100 = 0 /\ ease_factor # 250
        THEN {exact \div 100, exact \div 100 - 1}
        ELSE {exact \div 100}

\* update_review_data(quality), lines 157-187: the rows the card can become.
update_review_data(c, quality) ==
    IF quality < 3
    THEN {[c EXCEPT !.last_reviewed = <<"now">>,
                    !.repetitions = 0,
                    !.interval = 1,
                    !.status = STATUS_TO_LEARN,
                    !.next_review = [since |-> "last_reviewed", days |-> 1]]}
    ELSE LET repetitions == c.repetitions + 1
             intervals == IF repetitions = 1 THEN {1}
                          ELSE IF repetitions = 2 THEN {6}
                          ELSE new_intervals(c.interval, c.ease_factor)
             ease_factor == new_ease(c.ease_factor, quality)
             status == IF repetitions >= 5 /\ ease_factor > 200
                       THEN STATUS_LEARNED
                       ELSE IF repetitions >= 2 THEN STATUS_KNOWN
                       ELSE c.status
         IN  {[status |-> status,
               ease_factor |-> ease_factor,
               interval |-> interval,
               repetitions |-> repetitions,
               next_review |-> [since |-> "last_reviewed", days |-> interval],
               last_reviewed |-> <<"now">>] : interval \in intervals}

\* What a submit_answer request carries as "quality": nothing, or a number.
Qualities == {<<>>} \cup {<<q>> : q \in 0..5}

InitFlashCard ==
    /\ request = [has_file |-> FALSE, fb2_name |-> FALSE, size |-> 0,
                  content |-> [well_formed |-> FALSE, tree |-> <<>>]]
    /\ pc = "done"
    /\ trace = <<>>
    /\ root = <<>>
    /\ namespace = <<>>
    /\ book_data = <<>>
    /\ returned = <<>>
    /\ error = <<>>
    /\ book = <<>>
    /\ i = 1
    /\ db = EmptyDb
    /\ needs_rollback = FALSE
    /\ response = <<>>
    /\ chapter_response = <<>>
    /\ ParserIdle
    /\ card = new_card
    /\ reviews = 0
    /\ answer_response = 0
    /\ last_quality = 0
    /\ answered_low = FALSE
    /\ SessionIdle
    /\ TranslateIdle

\* submit_answer, views.py lines 475-513, with a quality the view accepts:
\* the card is updated and saved.
Review ==
    /\ reviews < MaxReviews
    /\ \E quality \in 1..4 :
         /\ card' \in update_review_data(card, quality)
         /\ last_quality' = quality
         /\ answered_low' = (answered_low \/ quality < 3)
    /\ reviews' = reviews + 1
    /\ answer_response' = 200
    /\ UNCHANGED beside_flashcard

\* submit_answer with a quality it rejects: int(None) raises TypeError, which
\* leaves the view as a 500; 0 and numbers outside 1..4 get the 400 of lines
\* 488-492.  The card is not touched.
RejectAnswer ==
    /\ reviews < MaxReviews
    /\ \E data \in Qualities :
         /\ IF data = <<>> THEN TRUE ELSE data[1] \notin 1..4
         /\ answer_response' = IF data = <<>> THEN 500 ELSE 400
    /\ UNCHANGED <<card, reviews, last_quality, answered_low>>
    /\ UNCHANGED beside_flashcard

NextFlashCard ==
    \/ Review
    \/ RejectAnswer

\* The user keeps reviewing: an answer that can be submitted is submitted.
SpecFlashCard ==
    InitFlashCard /\ [][NextFlashCard]_vars /\ WF_vars(Review)

\* -------------------------------------------------------- review session

\* How many cards the user has, and the largest `limit` asked for.
MaxCards == 2

MaxLimit == 3

\* The row update_review_data leaves when the float product of line 176 is
\* not in doubt (it is not for the answers below).
reviewed(c, quality) == CHOOSE row \in update_review_data(c, quality) : TRUE

\* The card after the answers of `history`, oldest first.
RECURSIVE card_after(_)
card_after(history) ==
    IF history = <<>> THEN new_card
    ELSE reviewed(card_after(SubSeq(history, 1, Len(history) - 1)),
                  history[Len(history)])

\* The answers the user's cards have behind them: none (a card just
\* created), one wrong, one right, two right (KNOWN), five easy (LEARNED).
Histories == {<<>>, <<1>>, <<3>>, <<3, 3>>, <<4, 4, 4, 4, 4>>}

\* Days gone by since the card was created or last reviewed.
Elapsed == {0, 1, 7}

\* The user's FlashCard rows in the order of created_at: each with the days
\* elapsed since its next_review was set.
CardTables ==
    UNION {[1..n -> {[row |-> card_after(h), elapsed |-> e] :
                         h \in Histories, e \in Elapsed}] : n \in 0..MaxCards}

\* next_review__lte=now
is_due(c) == c.row.next_review.days <= c.elapsed

\* next_review against now, the key of order_by('next_review').
review_key(c) == c.row.next_review.days - c.elapsed

\* The orders a query can return the rows `ids` in: every permutation that
\* is ascending in the ORDER BY value `key` (rows the value does not tell
\* apart come in any order).
orderings(ids, key) ==
    {s \in [1..Cardinality(ids) -> ids] :
        /\ \A a, b \in 1..Cardinality(ids) : a # b => s[a] # s[b]
        /\ \A a, b \in 1..Cardinality(ids) : key[s[b]] < key[s[a]] => b < a}

\* queryset[:n]
slice(s, n) == SubSeq(s, 1, IF n < Len(s) THEN n ELSE Len(s))

\* FlashCard.get_cards_for_review(user, limit), models.py lines 191-226: the
\* lists of card ids it can return.
get_cards_for_review(table, limit) ==
    LET ids == DOMAIN table
        eligible == {c \in ids : table[c].row.status
                                   \in {STATUS_TO_LEARN, STATUS_KNOWN}}
        due == {c \in eligible : is_due(table[c])}
        new == {c \in ids : /\ table[c].row.status = STATUS_TO_LEARN
                            /\ table[c].row.repetitions = 0
                            /\ table[c].row.last_reviewed = <<>>}
        due_cards == orderings(due, [c \in ids |-> review_key(table[c])])
        new_cards == orderings(new, [c \in ids |-> c])
        firsts == {slice(d, limit \div 2) \o slice(n, limit \div 2) :
                       d \in due_cards, n \in new_cards}
        extended(cards_list) ==
            IF Len(cards_list) < limit
            THEN LET remaining == limit - Len(cards_list)
                     pool == eligible \ {cards_list[k] : k \in DOMAIN cards_list}
                 IN  {cards_list \o slice(a, remaining) :
                          a \in orderings(pool, [c \in ids |-> 0])}
            ELSE {cards_list}
    IN  {slice(l, limit) : l \in UNION {extended(f) : f \in firsts}}

\* The `limit` query parameters of review_session: none, or a number.
LimitParams == {<<>>} \cup {<<str(k)>> : k \in 0..MaxLimit}

InitSession ==
    /\ request = [has_file |-> FALSE, fb2_name |-> FALSE, size |-> 0,
                  content |-> [well_formed |-> FALSE, tree |-> <<>>]]
    /\ pc = "done"
    /\ trace = <<>>
    /\ root = <<>>
    /\ namespace = <<>>
    /\ book_data = <<>>
    /\ returned = <<>>
    /\ error = <<>>
    /\ book = <<>>
    /\ i = 1
    /\ db = EmptyDb
    /\ needs_rollback = FALSE
    /\ response = <<>>
    /\ chapter_response = <<>>
    /\ ParserIdle
    /\ FlashCardIdle
    /\ cards \in CardTables
    /\ session = <<>>
    /\ TranslateIdle

\* review_session, views.py lines 458-473.
ReviewSession ==
    /\ session = <<>>
    /\ \E params \in LimitParams :
         LET limit == IF params = <<>> THEN 10 ELSE to_int(params[1])
         IN  \E list \in get_cards_for_review(cards, limit) :
               session' = <<[limit |-> limit, cards |-> list,
                             count |-> Len(list)]>>
    /\ UNCHANGED cards
    /\ UNCHANGED beside_session

NextSession == ReviewSession

SpecSession == InitSession /\ [][NextSession]_vars

\* ------------------------------------------------------------- translate

\* The translate calls followed side by side.
MaxTranslateCalls == 2

TranslateIds == 1..MaxTranslateCalls

Users == {"u1", "u2"}

\* The services a request names: one of TRANSLATORS, or the serializer's
\* default 'auto'.
Deepl == <<"d", "e", "e", "p", "l">>

Auto == <<"a", "u", "t", "o">>

Services == {Deepl, Auto}

\* TRANSLATORS, lines 16-19 (the model asks for 'deepl' only).
TRANSLATORS == {Deepl, <<"c", "h", "a", "t", "g", "p", "t">>}

\* _generate_cache_key, lines 71-73: the string that is hashed.  md5 is
\* taken to give different keys for different strings, so the key is the
\* string with its prefix.  The user is not part of it.
generate_cache_key(text, target_lang, source_lang, service) ==
    <<"translation:">> \o join(<<"_">>, <<text, target_lang, source_lang, service>>)

\* cache.get(key): the entry under the key, <<>> when there is none.
cache_get(entries, key) ==
    LET hit == {e \in entries : e.key = key}
    IN  IF hit = {} THEN <<>> ELSE <<CHOOSE e \in hit : TRUE>>

\* cache.set(key, value); `by` remembers whose call stored the value.
cache_set(entries, key, value, by) ==
    {e \in entries : e.key # key} \cup {[key |-> key, value |-> value, by |-> by]}

\* _get_from_database, lines 75-84: the rows .first() chooses from.
get_from_database(rows, user, text, target_language, service) ==
    {r \in rows : /\ r.user = user
                  /\ r.original_text = text
                  /\ r.target_language = target_language
                  /\ r.translator_service =
                         (IF service # Auto THEN service ELSE Deepl)}

\* What DeepLTranslator.translate returns, translator_backends.py lines 70-77.
deepl_result(text, source_language) ==
    [translated_text |-> <<"~">> \o text,
     detected_language |-> <<"e", "n">>,
     service |-> Deepl]

\* The row _save_translation creates, lines 93-104.
translation_row(user, text, translation_result, target_language) ==
    [user |-> user,
     original_text |-> text,
     translated_text |-> translation_result.translated_text,
     source_language |-> translation_result.detected_language,
     target_language |-> target_language,
     translator_service |-> translation_result.service]

\* unique_together of Translation.Meta, models.py line 356.
violates_unique_translation(rows, row) ==
    \E r \in rows : /\ r.user = row.user
                    /\ r.original_text = row.original_text
                    /\ r.target_language = row.target_language
                    /\ r.translator_service = row.translator_service

\* _format_db_result, lines 106-117.
format_db_result(translation_obj) ==
    [success |-> TRUE,
     original_text |-> translation_obj.original_text,
     translated_text |-> translation_obj.translated_text,
     source_language |-> translation_obj.source_language,
     target_language |-> translation_obj.target_language,
     service |-> translation_obj.translator_service,
     cached |-> TRUE]

\* _format_translation_result, lines 119-131.
format_translation_result(translation_result, text, target_language) ==
    [success |-> TRUE,
     original_text |-> text,
     translated_text |-> translation_result.translated_text,
     source_language |-> translation_result.detected_language,
     target_language |-> target_language,
     service |-> translation_result.service,
     cached |-> FALSE]

\* The except clause of lines 67-69: whatever was raised leaves translate
\* as a TranslationServiceError that carries the message of its cause.
translation_error(cause) ==
    [type |-> "TranslationServiceError", cause |-> cause]

\* A call of TranslationService(user).translate(text, 'ru', 'auto', '',
\* service) about to run line 29.
translate_frame(user, service) ==
    [user |-> user,
     text |-> <<"h", "i">>,
     target_language |-> <<"r", "u">>,
     source_language |-> Auto,
     service |-> service,
     pc |-> "cache_get",
     translation_result |-> <<>>,
     result |-> <<>>,
     served_by |-> <<>>,
     error |-> <<>>]

frame_key(f) ==
    generate_cache_key(f.text, f.target_language, f.source_language, f.service)

InitTranslate ==
    /\ request = [has_file |-> FALSE, fb2_name |-> FALSE, size |-> 0,
                  content |-> [well_formed |-> FALSE, tree |-> <<>>]]
    /\ pc = "done"
    /\ trace = <<>>
    /\ root = <<>>
    /\ namespace = <<>>
    /\ book_data = <<>>
    /\ returned = <<>>
    /\ error = <<>>
    /\ book = <<>>
    /\ i = 1
    /\ db = EmptyDb
    /\ needs_rollback = FALSE
    /\ response = <<>>
    /\ chapter_response = <<>>
    /\ ParserIdle
    /\ FlashCardIdle
    /\ SessionIdle
    /\ tcalls \in [TranslateIds ->
                      {translate_frame(u, s) : u \in Users, s \in Services}]
    /\ cache = {}
    /\ translations = {}

\* Call c moves on: its frame becomes f.
become(c, f) == tcalls' = [tcalls EXCEPT ![c] = f]

\* Lines 29-40: the cache lookup.
CacheGet(c) ==
    /\ tcalls[c].pc = "cache_get"
    /\ LET cached_result == cache_get(cache, frame_key(tcalls[c]))
       IN  IF cached_result # <<>>
           THEN become(c, [tcalls[c] EXCEPT
                    !.result = <<[cached_result[1].value EXCEPT !.cached = TRUE]>>,
                    !.served_by = <<cached_result[1].by>>,
                    !.pc = "returned"])
           ELSE become(c, [tcalls[c] EXCEPT !.pc = "db_get"])
    /\ UNCHANGED <<cache, translations>>
    /\ UNCHANGED beside_translate

\* Lines 42-44: the lookup among the user's rows.
DbGet(c) ==
    /\ tcalls[c].pc = "db_get"
    /\ LET f == tcalls[c]
           found == get_from_database(translations, f.user, f.text,
                                      f.target_language, f.service)
       IN  IF found # {}
           THEN \E db_result \in found :
                  become(c, [f EXCEPT !.result = <<format_db_result(db_result)>>,
                                      !.pc = "cache_set"])
           ELSE become(c, [f EXCEPT !.pc = "translate"])
    /\ UNCHANGED <<cache, translations>>
    /\ UNCHANGED beside_translate

\* Lines 49-52: the translator is looked up and asked; the request to the
\* service succeeds or fails.
Translate(c) ==
    /\ tcalls[c].pc = "translate"
    /\ LET f == tcalls[c]
       IN  IF f.service \notin TRANSLATORS
           THEN become(c, [f EXCEPT
                    !.error = <<translation_error("unsupported service")>>,
                    !.pc = "raised"])
           ELSE \E ok \in BOOLEAN :
                  IF ok
                  THEN become(c, [f EXCEPT
                           !.translation_result =
                               <<deepl_result(f.text, f.source_language)>>,
                           !.pc = "save"])
                  ELSE become(c, [f EXCEPT
                           !.error = <<translation_error("request failed")>>,
                           !.pc = "raised"])
    /\ UNCHANGED <<cache, translations>>
    /\ UNCHANGED beside_translate

\* Lines 54-61: the row is created inside transaction.atomic(); a row that
\* breaks unique_together raises IntegrityError, which the except clause
\* turns into TranslationServiceError.
SaveTranslation(c) ==
    /\ tcalls[c].pc = "save"
    /\ LET f == tcalls[c]
           row == translation_row(f.user, f.text, f.translation_result[1],
                                  f.target_language)
       IN  IF violates_unique_translation(translations, row)
           THEN /\ become(c, [f EXCEPT
                        !.error = <<translation_error("IntegrityError")>>,
                        !.pc = "raised"])
                /\ UNCHANGED translations
           ELSE /\ translations' = translations \cup {row}
                /\ become(c, [f EXCEPT
                        !.result = <<format_translation_result(
                                       f.translation_result[1], f.text,
                                       f.target_language)>>,
                        !.pc = "cache_set"])
    /\ UNCHANGED cache
    /\ UNCHANGED beside_translate

\* Lines 45-46 and 63-65: the result is put in the cache and returned.
CacheSet(c) ==
    /\ tcalls[c].pc = "cache_set"
    /\ cache' = cache_set(cache, frame_key(tcalls[c]), tcalls[c].result[1],
                          tcalls[c].user)
    /\ become(c, [tcalls[c] EXCEPT !.pc = "returned"])
    /\ UNCHANGED translations
    /\ UNCHANGED beside_translate

\* timeout=3600: an entry leaves the cache when its hour is over.
CacheExpire ==
    /\ \E e \in cache : cache' = cache \ {e}
    /\ UNCHANGED <<tcalls, translations>>
    /\ UNCHANGED beside_translate

NextTranslate ==
    \/ \E c \in TranslateIds :
         \/ CacheGet(c)
         \/ DbGet(c)
         \/ Translate(c)
         \/ SaveTranslation(c)
         \/ CacheSet(c)
    \/ CacheExpire

SpecTranslate == InitTranslate /\ [][NextTranslate]_vars

\* C11: a parser call's outcome is a function of its input alone: however
\* the calls running side by side are interleaved, a call that has left
\* (returned or raised) has left with what _parse_fb2_content gives for its
\* input on its own, and two calls given the same input have left alike.
CallLeft(c) == calls[c].pc \in {"returned", "raised"}

C11_CallsIndependent ==
    /\ \A c \in CallIds :
         CallLeft(c) =>
           calls[c].result = parse_fb2_content(calls[c].file_content)
    /\ \A c, d \in CallIds :
         (CallLeft(c) /\ CallLeft(d)
            /\ calls[c].file_content = calls[d].file_content)
         => calls[c].result = calls[d].result

\* Call 1 has returned a record while call 2, given a document in the
\* other namespace, is between its statements.
C11_Witness ==
    /\ calls[1].pc = "returned"
    /\ calls[2].pc \in {"validate", "metadata", "chapters"}
    /\ calls[1].namespace # calls[2].namespace
    /\ calls[1].result.data # <<>>

\* The elements named `name` (of the root's namespace) among the nodes S of
\* the parsed document, in document order; the title-info the metadata is
\* read from; the children of an element that carry a given name.
ElementsIn(S, name) == InOrder({j \in S : IsElement(root, j, name)})

TitleInfo == ElementsIn(Descendants(root, 1), "title-info")[1]

ChildrenNamed(e, name) == ElementsIn(Children(root, e), name)

LangChildren == ChildrenNamed(TitleInfo, "lang")

RecordLanguage == returned[1].additional_fields.language

\* C12: after a successful parse, the record's language is "ru" when
\* title-info has no lang child and the trimmed text of the lang child when
\* it has one with text; every Book row the upload stores carries the
\* record's language.
C12_LanguageDefaultRu ==
    returned # <<>> =>
      /\ (LangChildren = <<>> => RecordLanguage = <<"r", "u">>)
      /\ (LangChildren # <<>> /\ root[LangChildren[1]].text # <<>>
            => RecordLanguage = strip(root[LangChildren[1]].text))
      /\ \A b \in db.books : b.language = RecordLanguage

\* An upload of a document without lang has been answered 201 and its Book
\* row is committed with language "ru".
C12_Witness ==
    /\ pc = "done"
    /\ response # <<>> /\ response[1].status = 201
    /\ LangChildren = <<>>
    /\ \E b \in db.books : b.language = <<"r", "u">>

BookTitleChildren == ChildrenNamed(TitleInfo, "book-title")

BookTitleText ==
    IF BookTitleChildren = <<>> THEN <<>>
    ELSE strip(root[BookTitleChildren[1]].text)

\* C13: the title of a successful parse is the trimmed text of the
\* book-title child when that is not empty, the default title when
\* book-title is absent, has no text or has only whitespace; it is never
\* empty.
C13_TitleTrimmedOrDefault ==
    returned # <<>> =>
      /\ returned[1].title =
           IF BookTitleText # <<>> THEN BookTitleText ELSE DefaultTitle
      /\ returned[1].title # <<>>

\* C14: the parser is invoked only for a file whose name ends in .fb2 and
\* whose size is at most 50 MB, and an upload whose file fails either check
\* leaves no row behind.
FilePassesChecks == request.fb2_name /\ request.size <= MaxUploadSize

C14_ChecksBeforeParser ==
    /\ trace # <<>> => FilePassesChecks
    /\ (request.has_file /\ ~FilePassesChecks) => db = EmptyDb

\* The body the chapters are read from, its direct child sections and its
\* sections at any depth, in document order.
Body == ElementsIn(Descendants(root, 1), "body")[1]

DirectSections == ChildrenNamed(Body, "section")

AllSections == ElementsIn(Descendants(root, Body), "section")

\* The two-tier choice the claim describes.
TwoTier == IF DirectSections # <<>> THEN DirectSections ELSE AllSections

\* C15: the chapters of a successful parse come from the two-tier list and
\* from nothing else: the direct child sections of body when there is one,
\* otherwise all the sections below body, in document order.  Every
\* section of the list that yields text is emitted once, in list order,
\* with that section's text.
C15_TwoTierCandidates ==
    returned # <<>> =>
      LET tier == TwoTier
          texts == [k \in 1..Len(tier) |->
                      chapter_content_of(root, tier[k], namespace)]
          with_text == {k \in 1..Len(tier) : strip(texts[k]) # <<>>}
          chapters == Chapters
      IN  /\ {chapters[j].order : j \in 1..Len(chapters)} = with_text
          /\ Len(chapters) = Cardinality(with_text)
          /\ \A j \in 1..Len(chapters) :
               /\ chapters[j].content = texts[chapters[j].order]
               /\ \A k \in 1..(j - 1) : chapters[k].order < chapters[j].order

\* A body without direct sections whose two nested sections were emitted
\* as chapters 1 and 2.
C15_Witness ==
    /\ returned # <<>>
    /\ DirectSections = <<>>
    /\ Len(AllSections) = 2
    /\ Len(Chapters) = 2
    /\ Chapters[1].order = 1 /\ Chapters[2].order = 2

\* Node j lies in (or is) a section nested inside a direct section of body.
InNestedSection(j) ==
    \E s \in Children(root, Body), n \in Descendants(root, Body) :
       /\ IsElement(root, s, "section") /\ IsElement(root, n, "section")
       /\ n \in Descendants(root, s)
       /\ (j = n \/ j \in Descendants(root, n))

\* The document with the nested sections cut out.
WithoutNestedSections ==
    LET keep == InOrder({j \in 1..Len(root) : ~InNestedSection(j)})
    IN  [k \in 1..Len(keep) |-> root[keep[k]]]

\* C16: when body has a direct child section, nothing inside a section
\* nested deeper reaches a chapter (the chapters are those of the document
\* with the nested sections cut out), and when no direct section has a
\* direct p child the chapter list of the successful parse is empty.
C16_NestedNeverReached ==
    returned # <<>> /\ DirectSections # <<>> =>
      /\ Chapters = extract_fb2_chapters(WithoutNestedSections, namespace)
      /\ (\A k \in 1..Len(DirectSections) :
             ChildrenNamed(DirectSections[k], "p") = <<>>)
           => Chapters = <<>>

\* The content the claim gives a section: its direct p children's trimmed
\* full texts, the empty ones left out, joined by a blank line.
ParagraphTexts(s) ==
    LET ps == ChildrenNamed(s, "p")
    IN  SelectSeq([k \in 1..Len(ps) |-> strip(itertext(root, ps[k]))],
                  LAMBDA x : x # <<>>)

\* C17: the content of every emitted chapter is the blank-line join of the
\* trimmed full texts of its section's direct p children that have text;
\* no other child contributes.
C17_ContentFromParagraphsOnly ==
    returned # <<>> =>
      \A j \in 1..Len(Chapters) :
        Chapters[j].content =
          join(<<"\n", "\n">>, ParagraphTexts(TwoTier[Chapters[j].order]))

\* The title text the claim derives for a section: the trimmed
\* single-space join of the texts of the paragraphs under its direct title
\* child, or the title's trimmed full text when it holds no paragraph.
DerivedTitle(s) ==
    LET title_elems == ChildrenNamed(s, "title")
    IN  IF title_elems = <<>> THEN <<>>
        ELSE LET ps == ElementsIn(Descendants(root, title_elems[1]), "p")
                 texts == SelectSeq([k \in 1..Len(ps) |-> root[ps[k]].text],
                                    LAMBDA x : x # <<>>)
             IN  IF ps # <<>>
                 THEN strip(join(<<" ">>, texts))
                 ELSE strip(itertext(root, title_elems[1]))

\* C18: every emitted chapter's title is non-empty after trimming, has no
\* leading or trailing whitespace, and is the derived title text or, when
\* that is empty, the generated "Glava N" with N the chapter's order.
C18_TitleTrimmedNonEmpty ==
    returned # <<>> =>
      \A j \in 1..Len(Chapters) :
        LET title == Chapters[j].title
            derived == DerivedTitle(TwoTier[Chapters[j].order])
        IN  /\ strip(title) # <<>>
            /\ strip(title) = title
            /\ title = IF derived # <<>> THEN derived
                       ELSE Glava \o str(Chapters[j].order)

\* The annotation elements of title-info and the paragraphs of the first
\* one, at any depth, in document order; the trimmed texts of those of the
\* elements es that have a text.
Annotation == ElementsIn(Descendants(root, TitleInfo), "annotation")

AnnotationParagraphs == ElementsIn(Descendants(root, Annotation[1]), "p")

TrimmedTexts(es) ==
    LET texts == SelectSeq([k \in 1..Len(es) |-> root[es[k]].text],
                           LAMBDA x : x # <<>>)
    IN  [k \in 1..Len(texts) |-> strip(texts[k])]

\* C19: the description of a successful parse is empty when title-info has
\* no annotation, the newline join of the trimmed texts of the annotation's
\* paragraphs (those that have a text, in document order) when it has
\* paragraphs, and the trimmed concatenation of all the text inside the
\* annotation when it has none.
C19_Description ==
    returned # <<>> =>
      returned[1].description =
        IF Annotation = <<>> THEN <<>>
        ELSE IF AnnotationParagraphs # <<>>
             THEN join(<<"\n">>, TrimmedTexts(AnnotationParagraphs))
             ELSE strip(itertext(root, Annotation[1]))

\* A parsed annotation with three paragraphs, two of them with text, one of
\* those below another element: the description is the two texts on two
\* lines.
C19_Witness ==
    /\ returned # <<>>
    /\ Annotation # <<>>
    /\ Len(AnnotationParagraphs) = 3
    /\ \E k \in 1..3 : root[AnnotationParagraphs[k]].d > root[Annotation[1]].d + 1
    /\ returned[1].description = <<"N", "\n", "C">>

\* The author elements of title-info, the trimmed text of a name part of an
\* author (empty when the part is absent or has no text), the entry the
\* claim gives an author, and the entries of the authors that have one.
Authors == ElementsIn(Descendants(root, TitleInfo), "author")

PartText(a, name) ==
    LET part == ChildrenNamed(a, name)
    IN  IF part = <<>> THEN <<>> ELSE strip(root[part[1]].text)

Entry(a) ==
    join(<<" ">>,
         SelectSeq(<<PartText(a, "first-name"), PartText(a, "middle-name"),
                     PartText(a, "last-name")>>,
                   LAMBDA x : x # <<>>))

Entries ==
    SelectSeq([k \in 1..Len(Authors) |-> Entry(Authors[k])], LAMBDA x : x # <<>>)

HasDoubledSpace(s) == \E k \in 1..(Len(s) - 1) : s[k] = " " /\ s[k + 1] = " "

\* C20 as stated: the stored authors field is the ", " join of the entries
\* (first, middle, last name joined by one space, empty parts and empty
\* entries left out, document order), and no entry has a leading, trailing
\* or doubled space.
C20_AuthorEntriesNoDoubledSpace ==
    returned # <<>> =>
      /\ returned[1].additional_fields.authors = join(<<",", " ">>, Entries)
      /\ \A k \in 1..Len(Entries) :
           strip(Entries[k]) = Entries[k] /\ ~HasDoubledSpace(Entries[k])

\* C20: the stored authors field is the ", " join of the entries (first,
\* middle, last name joined by one space, empty parts and empty entries
\* left out, document order), and no entry has a leading or trailing
\* space.
C20_AuthorEntries ==
    returned # <<>> =>
      /\ returned[1].additional_fields.authors = join(<<",", " ">>, Entries)
      /\ \A k \in 1..Len(Entries) : strip(Entries[k]) = Entries[k]

\* Two authors were parsed, the first with two name parts, and both are in
\* the stored field in document order.
C20_Witness ==
    /\ returned # <<>>
    /\ Len(Authors) = 2
    /\ Len(Entries) = 2
    /\ Entries[1] = <<"F", " ", "L">>
    /\ returned[1].additional_fields.authors = Entries[1] \o <<",", " ">> \o Entries[2]
    /\ Entries[1] # Entries[2]

\* The genre elements anywhere under title-info, in document order.
GenresAnywhere == ElementsIn(Descendants(root, TitleInfo), "genre")

\* C21: the genres field of a successful parse is the single-space join,
\* in document order and with duplicates kept, of the trimmed texts of the
\* genre elements found at any depth under title-info.
C21_GenresAtAnyDepth ==
    returned # <<>> =>
      returned[1].additional_fields.genres =
        join(<<" ">>, TrimmedTexts(GenresAnywhere))

\* The document with the local name of every element outside the root's
\* namespace replaced by a name no lookup asks for.
ForeignRenamed(t) ==
    [j \in 1..Len(t) |->
       IF ElementNs(t[j].tag) = ElementNs(t[1].tag) THEN t[j]
       ELSE [t[j] EXCEPT !.tag = TagOf(ElementNs(t[j].tag), "x")]]

\* C22: no lookup of the parse matches an element outside the namespace
\* resolved from the root: what the parser returns does not depend on the
\* names of the elements of any other namespace.
C22_ForeignNeverMatched ==
    returned # <<>> =>
      returned =
        parse_fb2_content([well_formed |-> TRUE, tree |-> ForeignRenamed(root)]).data

\* _parse_fb2_content has just handed its record to upload_fb2 (the record
\* and the tree are not written afterwards).
RecordReturned == returned # <<>> /\ pc = "create_book"

\* The body elements below the root, and the document with every body but
\* the first cut out together with what it holds.
Bodies == ElementsIn(Descendants(root, 1), "body")

WithoutLaterBodies ==
    LET bodies == Bodies
        later == UNION {{bodies[b]} \cup Descendants(root, bodies[b]) :
                          b \in 2..Len(bodies)}
        keep == SelectSeq([j \in 1..Len(root) |-> j], LAMBDA j : j \notin later)
    IN  [k \in 1..Len(keep) |-> root[keep[k]]]

\* C25: the chapters of a successful parse are those of the document with
\* every body after the first cut out: a later body gives no candidate,
\* takes no number and yields no chapter, also when the first body yields
\* none.
C25_FirstBodyOnly ==
    RecordReturned =>
      Chapters = extract_fb2_chapters(WithoutLaterBodies, namespace)

\* A parsed document whose first body yields no chapter and whose second
\* body holds a section with text: the chapter list is empty.
C25_Witness ==
    /\ RecordReturned
    /\ Len(Bodies) = 2
    /\ \E s \in Descendants(root, Bodies[2]) :
         /\ IsElement(root, s, "section")
         /\ strip(chapter_content_of(root, s, namespace)) # <<>>
    /\ Chapters = <<>>

\* The children of section s whose text its chapter is joined from, the
\* nodes whose text reaches the chapter through them, and the innermost
\* section around node j.
TakenChildren(s) == {c \in Children(root, s) : endswith_p(root[c].tag)}

Reaching(s) ==
    UNION {{c} \cup Descendants(root, c) : c \in TakenChildren(s)}

ParentSection(j) ==
    LET around == {s \in 1..(j - 1) :
                     IsElement(root, s, "section") /\ j \in Descendants(root, s)}
    IN  CHOOSE s \in around : \A o \in around : o <= s

\* What the chapters are made of: every emitted chapter's content is the
\* blank-line join of the trimmed full texts, the empty ones left out, of
\* the taken children of its own section.
ContentFromOwnSection ==
    \A k \in 1..Len(Chapters) :
      LET taken == InOrder(TakenChildren(TwoTier[Chapters[k].order]))
          texts == [n \in 1..Len(taken) |-> strip(itertext(root, taken[n]))]
      IN  Chapters[k].content =
            join(<<"\n", "\n">>, SelectSeq(texts, LAMBDA x : x # <<>>))

\* Every paragraph with text that reaches an emitted chapter reaches the
\* chapter of its parent section, hence one chapter only.
ParagraphsInParentChapter ==
    \A k \in 1..Len(Chapters) :
      LET s == TwoTier[Chapters[k].order]
      IN  \A j \in Reaching(s) :
            (IsElement(root, j, "p") /\ strip(itertext(root, j)) # <<>>)
            => ParentSection(j) = s

NoSectionInParagraph ==
    \A q \in 1..Len(root) :
      endswith_p(root[q].tag) =>
        \A s \in Descendants(root, q) : ~IsElement(root, s, "section")

TotalChapters == chapter_response[1].total_chapters

FirstChapter ==
    CHOOSE r \in book_chapters(db, book[1]) :
        \A o \in book_chapters(db, book[1]) : r.order <= o.order

\* C23: for a book stored by a successful upload whose chapter_content
\* reports T chapters, the request for every chapter number in 1..T finds a
\* chapter, and with T >= 1 the request without `chapter` returns the
\* book's first chapter.
C23_EveryChapterNumberServed ==
    chapter_response # <<>> /\ TotalChapters >= 1 =>
        /\ chapter_response[1].status = 200
        /\ chapter_response[1].asked = <<>> =>
               chapter_response[1].chapter = <<FirstChapter>>

C28_ReviewDataBounds ==
    /\ [](/\ card.ease_factor >= 130
          /\ card.ease_factor <= 250
          /\ card.interval >= 1
          /\ card.repetitions >= 0)
    /\ [][reviews' = reviews + 1 =>
            /\ card'.ease_factor <= card.ease_factor
            /\ last_quality' < 3 =>
                   /\ card'.repetitions = 0
                   /\ card'.interval = 1
                   /\ card'.status = STATUS_TO_LEARN
                   /\ card'.ease_factor = card.ease_factor]_vars

\* A card that was known, with an interval of weeks and the ease factor at
\* its floor, has just been answered with quality < 3.
C28_Witness ==
    /\ reviews >= 10
    /\ last_quality < 3
    /\ last_quality >= 1
    /\ card.ease_factor = 130
    /\ card.repetitions = 0
    /\ card.interval = 1
    /\ card.status = STATUS_TO_LEARN

\* C27: get_cards_for_review(user, limit) returns at most `limit` cards,
\* never the same card twice, and never a card whose status is LEARNED,
\* whatever the user's cards are.
C27_SessionWithinLimitDistinctNotLearned ==
    session # <<>> =>
        LET list == session[1].cards
        IN  /\ Len(list) <= session[1].limit
            /\ \A a, b \in DOMAIN list : a # b => list[a] # list[b]
            /\ \A a \in DOMAIN list :
                   cards[list[a]].row.status # STATUS_LEARNED

\* The calls that ask the same thing for the same user.
SameRequest(a, b) ==
    /\ tcalls[a].user = tcalls[b].user
    /\ tcalls[a].text = tcalls[b].text
    /\ tcalls[a].target_language = tcalls[b].target_language
    /\ tcalls[a].service = tcalls[b].service

Finished(c) == tcalls[c].pc \in {"returned", "raised"}

\* The rows of the history of call c's user for what c asked.
RowsFor(c) ==
    get_from_database(translations, tcalls[c].user, tcalls[c].text,
                      tcalls[c].target_language, tcalls[c].service)

\* C29: of two translate calls of one user with the same text, target
\* language and service running side by side on an empty cache and table,
\* neither fails because of the other (a call whose translator answered
\* returns a result), and one Translation row exists when both are over.
C29_ConcurrentSameRequest ==
    \A a, b \in DOMAIN tcalls :
        a # b /\ SameRequest(a, b) /\ Finished(a) /\ Finished(b) =>
            /\ tcalls[a].translation_result # <<>> => tcalls[a].pc = "returned"
            /\ tcalls[a].pc = "returned" /\ tcalls[b].pc = "returned" =>
                   Cardinality(RowsFor(a)) = 1

\* C30: a result taken from the cache was put there by a call of the same
\* user, and a call that returned a result leaves a Translation row in its
\* own user's history, whatever other users asked before.
C30_IsolatedPerUser ==
    \A c \in DOMAIN tcalls :
        tcalls[c].pc = "returned" =>
            /\ tcalls[c].served_by \in {<<>>, <<tcalls[c].user>>}
            /\ RowsFor(c) # {}

\* Why no number of further reviews helps the card of C26: a review with
\* quality >= 3 of a card that is not LEARNED and whose ease factor is at
\* most 2.0 leaves it not LEARNED with an ease factor of at most 2.0.
LearnedOutOfReach ==
    [][/\ reviews' = reviews + 1
       /\ last_quality' >= 3
       /\ card.status # STATUS_LEARNED
       /\ card.ease_factor <= 200
       => /\ card'.status # STATUS_LEARNED
          /\ card'.ease_factor <= 200]_vars

====
